---- MODULE Spec2Model ----
(***************************************************************************)
(* Model of the classification and slot-extraction core of                 *)
(* src/50-indb-embeddings/backend/app/api.py.                              *)
(*                                                                         *)
(* The two tables CATEGORIES and PROJECT_BY_CATEGORY are bags of rows (the *)
(* DDL declares no key).  Every request handler runs on the one global     *)
(* `connection`, so whatever one handler has executed is visible to every  *)
(* other handler at once; no handler commits, rolls back or locks.  Each   *)
(* action below is one database statement of a handler together with the   *)
(* local computation that leads up to it.                                  *)
(*                                                                         *)
(* SpecTranslate models translate_nl_to_new and POST /config of            *)
(* src/51-Knowledge-Graph-Explicit-knowledge-representation-and-reasoning/ *)
(* backend/app/api.py: the one row of ONTOLOGY_CONFIG, the request's       *)
(* locals, and one action per external call of the handler.                *)
(***************************************************************************)
EXTENDS Integers, Sequences, FiniteSets, Bags, TLC

\* ---------------------------------------------------------------- bounds
MaxCats == 2        \* categories in one request body
MaxItems == 2       \* rows of MHA_ADVISORIES4
MaxRequests == 2    \* update requests received over the life of the server

\* Threads of the server that may be inside the update endpoint at once.
Workers == {"w1", "w2"}

\* ------------------------------------------------------------ value sets
None == "<None>"    \* Python None / SQL NULL

\* A request body is a JSON object title -> description; keys are unique and
\* keep their order.
CatInputs == {[label |-> "L1", descr |-> "d1"], [label |-> "L2", descr |-> "d2"]}

Distinct(s) == \A i, j \in 1..Len(s) : s[i].label = s[j].label => i = j

SeqsUpTo(S, n) == UNION {[1..m -> S] : m \in 0..n}

RequestBodies == {c \in SeqsUpTo(CatInputs, MaxCats) : Distinct(c)}

\* RULE_ID values: an integer, a digit string, a non-digit string.
RuleIds == {[type |-> "int", text |-> "7"],
            [type |-> "str", text |-> "7"],
            [type |-> "str", text |-> "x"]}

\* TOPIC values: two texts and NULL.
Topics == {"a", "b", None}

Advisories == [RULE_ID : RuleIds, TOPIC : Topics]

Corpora == SeqsUpTo(Advisories, MaxItems)

\* COSINE_SIMILARITY(VECTOR_EMBEDDING(topic), VECTOR_EMBEDDING(descr)) in
\* hundredths: a pure function of the two texts.  Topic "a" is equally
\* close to both descriptions, topic "b" is closer to "d2" (0.81 against
\* 0.42).
Similarity(topic, descr) ==
    IF topic = "a" THEN 50
    ELSE IF descr = "d2" THEN 81 ELSE 42

\* line 196: isinstance(rule_id, int) or (isinstance(rule_id, str) and
\* rule_id.isdigit())
IsDigit(text) == text \in {"7"}
Eligible(rule_id) ==
    rule_id.type = "int" \/ (rule_id.type = "str" /\ IsDigit(rule_id.text))

\* The check of line 169 left out: every body goes on to the truncates.
NoCategories_Unchecked(categories) == FALSE

\* line 169: `not categories`
NoCategories(categories) == Len(categories) = 0

\* --------------------------------------------- compare_text_to_existing
\* response.content of the LM: text json.loads rejects ("text"), JSON that
\* decodes to something other than an object ("null", "array", "string"),
\* or a JSON object whose keys are any subset of the three slot keys.
SlotKeys == {"nsman_id", "location_name", "slot_date"}
SlotValues(key) ==
    {None, ""} \cup (IF key = "nsman_id" THEN {"12345"}
                     ELSE IF key = "location_name" THEN {"Clinic A", "O'N"}
                     ELSE {"2025-03-01"})
JsonObjects ==
    UNION {{f \in [D -> UNION {SlotValues(k) : k \in SlotKeys}] :
               \A k \in D : f[k] \in SlotValues(k)} : D \in SUBSET SlotKeys}
NoFields == [k \in {} |-> None]
Contents ==
    {[kind |-> k, fields |-> NoFields] : k \in {"text", "null", "array", "string"}}
        \cup {[kind |-> "object", fields |-> f] : f \in JsonObjects}
NoContent == [kind |-> "none", fields |-> NoFields]

QueryTexts == {"", "slots for 12345"}
SchemaNames == {"DBUSER", "S1"}

\* line 308: json.loads raises on anything that is not JSON
JsonLoadsRaises(content) == content.kind = "text"
\* lines 309-311: extraction.get(key) raises unless the decoded value is a
\* dict; on a dict it is the value of the key, or None when the key is absent
GetRaises(content) == content.kind # "object"
Get(content, key) ==
    IF key \in DOMAIN content.fields THEN content.fields[key] ELSE None
\* Python truth value of None, "" and a non-empty string
Truthy(value) == value \notin {None, ""}
\* Line 315 written as `nsman_id is None`: an empty id passes.
NsmanIdMissing_IsNone(value) == value = None

\* line 315: `not nsman_id`
NsmanIdMissing(value) == ~Truthy(value)

NoError == ""
ParseError == "Failed to parse LM extraction"
NotFoundError == "NSMAN_ID not found"
RequiredError == "query_text is required"
RaisedError == "str(e)"

\* Query text is a sequence of pieces, each a single quote or a run of
\* text without a quote, tagged with where it comes from: the f-string
\* ("template") or a value formatted into it ("value").
Quote == "'"
Tmpl(piece) == [t |-> piece, from |-> "template"]
Val(piece) == [t |-> piece, from |-> "value"]
Pieces(value) ==
    IF value = "" THEN <<>>
    ELSE IF value = "O'N" THEN <<"O", Quote, "N">>
    ELSE <<value>>
\* f"{value}": the value's text as it is, nothing escaped
Interpolate(value) == [i \in DOMAIN Pieces(value) |-> Val(Pieces(value)[i])]

SlotSelect == "SELECT LOCATION_NAME, SLOT_DATE, SLOT_TIME FROM "
SlotWhere == ".BOOKINGS_AVAILABILITY WHERE UPPER(LOCATION_NAME) = UPPER("
SlotDateFilter == " AND SLOT_DATE = "
SlotOrder == " ORDER BY SLOT_DATE DESC, SLOT_TIME DESC"
FallbackSelect == "SELECT SOLUTION, SOLUTION_TWO, SOLUTION_THREE FROM "
FallbackWhere == ".MHA_ADVISORIES4 WHERE NSMAN_ID = "
Limit3 == " LIMIT 3"

\* lines 325-326 applied whatever slot_date is
SlotQueryText_DateAlways(schema, location, date) ==
    <<Tmpl(SlotSelect)>> \o Interpolate(schema)
        \o <<Tmpl(SlotWhere), Tmpl(Quote)>> \o Interpolate(location)
        \o <<Tmpl(Quote), Tmpl(")")>>
        \o <<Tmpl(SlotDateFilter), Tmpl(Quote)>> \o Interpolate(date) \o <<Tmpl(Quote)>>
        \o <<Tmpl(SlotOrder), Tmpl(Limit3)>>

\* lines 320-330: slot_query
SlotQueryText(schema, location, date) ==
    <<Tmpl(SlotSelect)>> \o Interpolate(schema)
        \o <<Tmpl(SlotWhere), Tmpl(Quote)>> \o Interpolate(location)
        \o <<Tmpl(Quote), Tmpl(")")>>
        \o (IF Truthy(date)
            THEN <<Tmpl(SlotDateFilter), Tmpl(Quote)>> \o Interpolate(date) \o <<Tmpl(Quote)>>
            ELSE <<>>)
        \o <<Tmpl(SlotOrder), Tmpl(Limit3)>>

\* lines 348-355: sql_query
FallbackQueryText(schema, id) ==
    <<Tmpl(FallbackSelect)>> \o Interpolate(schema)
        \o <<Tmpl(FallbackWhere), Tmpl(Quote)>> \o Interpolate(id)
        \o <<Tmpl(Quote), Tmpl(Limit3)>>

\* lines 319-330 and 347-355: the query, by its branch, the values formatted
\* into it, and its text
SlotQuery(schema, location, date) ==
    [branch |-> "availability", schema |-> schema, location_name |-> location,
     slot_date |-> IF Truthy(date) THEN date ELSE None, nsman_id |-> None, limit |-> 3,
     text |-> SlotQueryText(schema, location, date)]
FallbackQuery(schema, id) ==
    [branch |-> "fallback", schema |-> schema, location_name |-> None,
     slot_date |-> None, nsman_id |-> id, limit |-> 3,
     text |-> FallbackQueryText(schema, id)]

\* ------------------------------------ values of translate_nl_to_new, config
\* A replacement field {name} of a str.format template.
Field(name) == [t |-> name, from |-> "field"]
\* a local name that has not been assigned
Unbound == "<unbound>"
\* str(value) as str.format writes it
StrOf(value) == IF value = None THEN "None" ELSE value
FormatValue(value) == Interpolate(StrOf(value))

ConfigFields ==
    {"ontology_query", "property_query", "classes_query", "instructions", "prefixes",
     "graph", "graph_inferred", "query_example", "template", "template_similarity",
     "query_template", "query_template_no_topic"}
TopicTemplate(select) ==
    <<Tmpl(select), Field("generated_sparql_query"), Tmpl(" FILTER topic = "),
      Field("topic"), Tmpl(")")>>
NoTopicTemplate(select) == <<Tmpl(select), Field("generated_sparql_query"), Tmpl(")")>>
UnboundFieldTemplate ==
    <<Tmpl("SELECT * FROM SPARQL_TABLE("), Field("generated_sparql_query"),
      Tmpl(" FROM "), Field("graph"), Tmpl(")")>>
EmptyTemplate == <<>>
\* the two columns that hold a str.format template; NULL in one of them,
\* and the local that would hold one before it is assigned
TemplateFields == {"query_template", "query_template_no_topic"}
NullTemplate == <<[t |-> None, from |-> "null"]>>
UnboundTemplate == <<[t |-> Unbound, from |-> "unbound"]>>
NullOf(key) == IF key \in TemplateFields THEN NullTemplate ELSE None
UnboundOf(key) == IF key \in TemplateFields THEN UnboundTemplate ELSE Unbound
\* Two complete bodies of POST /config, differing in every template.
ConfigA ==
    [k \in ConfigFields |->
        IF k = "query_template" THEN TopicTemplate("SELECT * FROM SPARQL_TABLE(")
        ELSE IF k = "query_template_no_topic"
        THEN NoTopicTemplate("SELECT * FROM SPARQL_TABLE(")
        ELSE k]
ConfigB ==
    [k \in ConfigFields |->
        IF k = "query_template" THEN TopicTemplate("SELECT DISTINCT * FROM SPARQL_TABLE(")
        ELSE IF k = "query_template_no_topic"
        THEN NoTopicTemplate("SELECT DISTINCT * FROM SPARQL_TABLE(")
        ELSE IF k \in {"template", "template_similarity"} THEN k \o " v2"
        ELSE k]
Without(body, key) == [k \in DOMAIN body \ {key} |-> body[k]]
ConfigBodies ==
    {ConfigA, ConfigB,
     Without(ConfigA, "query_template"),
     Without(ConfigA, "ontology_query"),
     Without(ConfigA, "template_similarity"),
     [ConfigA EXCEPT !["query_template"] = EmptyTemplate],
     [ConfigA EXCEPT !["query_template_no_topic"] = UnboundFieldTemplate]}
\* lines 235-246: data.get(key) for each column, None for an absent key
ConfigRow(body) ==
    [k \in ConfigFields |-> IF k \in DOMAIN body THEN body[k] ELSE NullOf(k)]
ConfigRows == {ConfigRow(body) : body \in ConfigBodies}
NoConfig == [k \in ConfigFields |-> UnboundOf(k)]

\* request bodies: not JSON, or JSON with nl_query absent, empty or given
NlQueries == {None, "", "trials on asthma"}
TranslateBodies ==
    {[json |-> FALSE, nl_query |-> None]}
        \cup {[json |-> TRUE, nl_query |-> q] : q \in NlQueries}
\* what the topic chain answers: not JSON, or an object with or without
\* its two keys; the topic is a name, the string "None" or null
TopicValues == {"asthma", "None", None}
TopicResponses ==
    {[kind |-> "text", fields |-> NoFields],
     [kind |-> "object", fields |-> [k \in {"query"} |-> "trials"]]}
        \cup {[kind |-> "object",
               fields |-> [k \in {"topic", "query"} |->
                              IF k = "topic" THEN t ELSE "trials"]] : t \in TopicValues}
\* lines 186-187: response_topic[key] raises KeyError on an absent key
ItemRaises(decoded, key) == key \notin DOMAIN decoded.fields
SparqlQueries == {"?s ?p ?o"}

\* str.format: None has no format; a field without a keyword raises KeyError
FormatRaises(template, keywords) ==
    \/ template = NullTemplate
    \/ \E i \in DOMAIN template :
          template[i].from = "field" /\ template[i].t \notin DOMAIN keywords
RECURSIVE FormatFrom(_, _, _)
FormatFrom(template, keywords, i) ==
    IF i > Len(template) THEN <<>>
    ELSE (IF template[i].from = "field" THEN FormatValue(keywords[template[i].t])
          ELSE <<template[i]>>) \o FormatFrom(template, keywords, i + 1)
Format(template, keywords) == FormatFrom(template, keywords, 1)
\* format_sql lays the text out anew and keeps its pieces
FormatSql(text) == [bound |-> TRUE, formatted |-> TRUE, text |-> text]
Unformatted(text) == [bound |-> TRUE, formatted |-> FALSE, text |-> text]
\* final_query before line 210 or 212 has run
UnboundQuery == [bound |-> FALSE, formatted |-> FALSE, text |-> <<>>]

\* Line 209 written as a test for an extracted topic: null counts as none.
TopicGiven_NotNull(topic_) == topic_ \notin {"None", None}

\* line 209: topic != "None"
TopicGiven(topic_) == topic_ # "None"
\* lines 210 and 212: the keywords handed to str.format
Keywords(topic_, fragment) ==
    IF TopicGiven(topic_)
    THEN [k \in {"generated_sparql_query", "topic"} |->
             IF k = "topic" THEN topic_ ELSE fragment]
    ELSE [k \in {"generated_sparql_query"} |-> fragment]
\* The templates taken from the table when the text is compiled.
CompileSource_Stored(local, stored) == stored

\* lines 159-160: the templates are the locals unpacked from the one row read
CompileSource(local, stored) == local
OuterTemplate(row, topic_) ==
    IF TopicGiven(topic_) THEN row["query_template"] ELSE row["query_template_no_topic"]
\* lines 209-212
Compiled(row, topic_, fragment) ==
    IF TopicGiven(topic_)
    THEN FormatSql(Format(row["query_template"], Keywords(topic_, fragment)))
    ELSE Unformatted(Format(row["query_template_no_topic"], Keywords(topic_, fragment)))

\* responses of translate_nl_to_new
NoResponse == [status |-> 0, body |-> "none"]
RequiredResponse == [status |-> 400, body |-> "error"]
ErrorResponse == [status |-> 400, body |-> "error, final_query"]
ResultResponse == [status |-> 200, body |-> "result, final_query"]
\* UnboundLocalError raised inside the except clause: the framework's 500
UnhandledResponse == [status |-> 500, body |-> "unhandled"]
NothingUsed ==
    [k \in {"template_similarity", "template", "outer"} |->
        IF k = "outer" THEN UnboundTemplate ELSE Unbound]

\* ----------------------------------------------------------------- state
VARIABLES
    CATEGORIES,             \* bag of [index, label, descr]
    PROJECT_BY_CATEGORY,    \* bag of [PROJECT_ID, CATEGORY_ID]
    corpus,                 \* MHA_ADVISORIES4, never written by this program
    pc,                     \* per worker: position in update_categories_and_projects
    categories,             \* per worker: the request body
    idx,                    \* per worker: loop position (categories, then advisories)
    chosen,                 \* per worker: category_id picked at line 219
    response,               \* per worker: HTTP status of the last request, 0 = none
    failedAt,               \* per worker: the statement that raised, "" = none
    startPBC,               \* per worker: PROJECT_BY_CATEGORY when the request arrived
    startView,              \* per worker: the reader's view when the request arrived
    repeat,                 \* per worker: the request repeats the body of the run
                            \* that has just ended successfully
    seen,                   \* what get_all_project_categories last returned during a run
    served,                 \* update requests received so far
    xpc,                    \* position in compare_text_to_existing
    query_text,             \* its request: data.get('query_text', '')
    schema_name,            \* its request: data.get('schema_name', 'DBUSER')
    content,                \* response.content of the LM
    nsman_id,               \* the three extracted slots
    location_name,
    slot_date,
    xresponse,              \* [status, error] of the last request
    queries,                \* the lookup queries the request has executed
    ONTOLOGY_CONFIG,        \* the one row of the table
    tpc,                    \* position in translate_nl_to_new
    config,                 \* its local row (lines 159-160)
    extractedTopic,         \* its locals topic, query, sparql_query, final_query
    query,
    sparql_query,
    final_query,
    tresponse,              \* [status, body] of the last translation request
    executed,               \* the texts the request has handed to cursor.execute
    used                    \* the config values the request has used so far

vars == <<CATEGORIES, PROJECT_BY_CATEGORY, corpus, pc, categories, idx, chosen,
          response, failedAt, startPBC, startView, repeat, seen, served,
          xpc, query_text, schema_name, content, nsman_id, location_name, slot_date,
          xresponse, queries,
          ONTOLOGY_CONFIG, tpc, config, extractedTopic, query, sparql_query,
          final_query,
          tresponse, executed, used>>

classification == <<CATEGORIES, PROJECT_BY_CATEGORY, corpus, pc, categories, idx, chosen,
                    response, failedAt, startPBC, startView, repeat, seen, served>>
extraction == <<xpc, query_text, schema_name, content, nsman_id, location_name,
                slot_date, xresponse, queries>>
translation == <<ONTOLOGY_CONFIG, tpc, config, extractedTopic, query, sparql_query,
          final_query,
                 tresponse, executed, used>>

NotSeen == [read |-> FALSE, rows |-> EmptyBag]

\* ----------------------------------------------------------- bag helpers
Add(bag, row) == bag (+) SetToBag({row})

\* The orders in which a SELECT without ORDER BY may return the rows of a bag.
ReadOrders(bag) ==
    {s \in [1..BagCardinality(bag) -> BagToSet(bag)] :
        \A r \in BagToSet(bag) :
            Cardinality({i \in DOMAIN s : s[i] = r}) = CopiesIn(r, bag)}

\* lines 231-235: PROJECT_BY_CATEGORY JOIN CATEGORIES ON CATEGORY_ID = "index"
JoinView ==
    LET pairs == {<<p, c>> \in BagToSet(PROJECT_BY_CATEGORY) \X BagToSet(CATEGORIES) :
                      p.CATEGORY_ID = c.index}
        out(pr) == [PROJECT_ID |-> pr[1].PROJECT_ID, category_label |-> pr[2].label]
        rowsOut == {out(pr) : pr \in pairs}
    IN [r \in rowsOut |->
           LET from == {pr \in pairs : out(pr) = r}
               n[S \in SUBSET from] ==
                   IF S = {} THEN 0
                   ELSE LET pr == CHOOSE x \in S : TRUE
                        IN CopiesIn(pr[1], PROJECT_BY_CATEGORY) * CopiesIn(pr[2], CATEGORIES)
                           + n[S \ {pr}]
           IN n[from]]

\* line 218: max(similarities, key=lambda x: x[1]) keeps the first of the
\* entries with the greatest key.
PyMax(similarities) ==
    LET best == CHOOSE i \in DOMAIN similarities :
                   /\ \A j \in DOMAIN similarities : similarities[j][2] <= similarities[i][2]
                   /\ \A j \in 1..(i - 1) : similarities[j][2] < similarities[i][2]
    IN similarities[best]

\* lines 199-215 for one advisory, the categories read in the order `rows`
Similarities(topic, rows) ==
    [i \in DOMAIN rows |-> <<rows[i].index, Similarity(topic, rows[i].descr)>>]

\* ------------------------------------------------------------------ Init
Init ==
    /\ CATEGORIES = EmptyBag
    /\ PROJECT_BY_CATEGORY = EmptyBag
    /\ corpus \in Corpora
    /\ pc = [w \in Workers |-> "idle"]
    /\ categories = [w \in Workers |-> <<>>]
    /\ idx = [w \in Workers |-> 0]
    /\ chosen = [w \in Workers |-> 0]
    /\ response = [w \in Workers |-> 0]
    /\ failedAt = [w \in Workers |-> ""]
    /\ startPBC = [w \in Workers |-> EmptyBag]
    /\ startView = [w \in Workers |-> EmptyBag]
    /\ repeat = [w \in Workers |-> FALSE]
    /\ seen = NotSeen
    /\ served = 0
    /\ xpc = "idle"
    /\ query_text = ""
    /\ schema_name = "DBUSER"
    /\ content = NoContent
    /\ nsman_id = None
    /\ location_name = None
    /\ slot_date = None
    /\ xresponse = [status |-> 0, error |-> NoError]
    /\ queries = <<>>
    /\ ONTOLOGY_CONFIG = ConfigRow(ConfigA)
    /\ tpc = "idle"
    /\ config = NoConfig
    /\ extractedTopic = Unbound
    /\ query = Unbound
    /\ sparql_query = Unbound
    /\ final_query = UnboundQuery
    /\ tresponse = NoResponse
    /\ executed = <<>>
    /\ used = NothingUsed

\* ------------------------------------- update_categories_and_projects (w)
tables == <<CATEGORIES, PROJECT_BY_CATEGORY>>
locals == <<categories, idx, chosen, response, failedAt>>
ghosts == <<startPBC, startView, repeat, seen, served>>

\* lines 166-172: the request arrives; an empty body is answered 400
Receive(w, body) ==
    /\ UNCHANGED <<extraction, translation>>
    /\ pc[w] \in {"idle", "done"}
    /\ served < MaxRequests
    /\ served' = served + 1
    /\ categories' = [categories EXCEPT ![w] = body]
    /\ repeat' = [repeat EXCEPT ![w] = pc[w] = "done" /\ response[w] = 200
                                          /\ body = categories[w]]
    /\ idx' = [idx EXCEPT ![w] = 0]
    /\ chosen' = [chosen EXCEPT ![w] = 0]
    /\ startPBC' = [startPBC EXCEPT ![w] = PROJECT_BY_CATEGORY]
    /\ startView' = [startView EXCEPT ![w] = JoinView]
    /\ seen' = NotSeen
    /\ failedAt' = [failedAt EXCEPT ![w] = ""]
    /\ IF NoCategories(body)
       THEN /\ pc' = [pc EXCEPT ![w] = "done"]
            /\ response' = [response EXCEPT ![w] = 400]
       ELSE /\ pc' = [pc EXCEPT ![w] = "truncate_categories"]
            /\ response' = [response EXCEPT ![w] = 0]
    /\ UNCHANGED <<tables, corpus>>

\* lines 174-175
TruncateCategories(w) ==
    /\ UNCHANGED <<extraction, translation>>
    /\ pc[w] = "truncate_categories"
    /\ CATEGORIES' = EmptyBag
    /\ pc' = [pc EXCEPT ![w] = "truncate_assignments"]
    /\ UNCHANGED <<PROJECT_BY_CATEGORY, corpus, locals, ghosts>>

\* lines 177-178
TruncateAssignments(w) ==
    /\ UNCHANGED <<extraction, translation>>
    /\ pc[w] = "truncate_assignments"
    /\ PROJECT_BY_CATEGORY' = EmptyBag
    /\ pc' = [pc EXCEPT ![w] = "insert_category"]
    /\ idx' = [idx EXCEPT ![w] = 1]
    /\ UNCHANGED <<CATEGORIES, corpus, categories, chosen, response, failedAt, ghosts>>

\* lines 181-186: one INSERT INTO CATEGORIES; "index" is the enumerate index
InsertCategory(w) ==
    /\ UNCHANGED <<extraction, translation>>
    /\ pc[w] = "insert_category"
    /\ idx[w] <= Len(categories[w])
    /\ CATEGORIES' = Add(CATEGORIES, [index |-> idx[w] - 1,
                                      label |-> categories[w][idx[w]].label,
                                      descr |-> categories[w][idx[w]].descr])
    /\ idx' = [idx EXCEPT ![w] = idx[w] + 1]
    /\ UNCHANGED <<PROJECT_BY_CATEGORY, corpus, pc, categories, chosen, response,
                   failedAt, ghosts>>

\* lines 188-192: both DataFrames are built (no statement runs), then the
\* advisories are collected; the corpus is static, so the loop reads it in place
ReadAdvisories(w) ==
    /\ UNCHANGED <<extraction, translation>>
    /\ pc[w] = "insert_category"
    /\ idx[w] > Len(categories[w])
    /\ pc' = [pc EXCEPT ![w] = "advisory"]
    /\ idx' = [idx EXCEPT ![w] = 1]
    /\ UNCHANGED <<tables, corpus, categories, chosen, response, failedAt, ghosts>>

\* lines 193-197: an advisory whose RULE_ID is no number is passed over
SkipAdvisory(w) ==
    /\ UNCHANGED <<extraction, translation>>
    /\ pc[w] = "advisory"
    /\ idx[w] <= Len(corpus)
    /\ ~Eligible(corpus[idx[w]].RULE_ID)
    /\ idx' = [idx EXCEPT ![w] = idx[w] + 1]
    /\ UNCHANGED <<tables, corpus, pc, categories, chosen, response, failedAt, ghosts>>

\* lines 199-219: categories_df.collect() reads CATEGORIES as it is now, in an
\* order the database chooses; topic.replace raises on a NULL topic as soon
\* as there is one category to score, and a similarity query may raise; with
\* no category nothing is inserted.  SELECT ... FROM DUMMY returns one row,
\* so similarity_results is never empty (line 213).
ScoreAdvisory(w) ==
    /\ UNCHANGED <<extraction, translation>>
    /\ pc[w] = "advisory"
    /\ idx[w] <= Len(corpus)
    /\ Eligible(corpus[idx[w]].RULE_ID)
    /\ \E rows \in ReadOrders(CATEGORIES) :
          LET topic == corpus[idx[w]].TOPIC IN
          IF rows = <<>>
          THEN /\ idx' = [idx EXCEPT ![w] = idx[w] + 1]
               /\ UNCHANGED <<pc, chosen, response, failedAt>>
          ELSE IF topic = None
          THEN /\ pc' = [pc EXCEPT ![w] = "done"]
               /\ response' = [response EXCEPT ![w] = 500]
               /\ failedAt' = [failedAt EXCEPT ![w] = "topic"]
               /\ UNCHANGED <<idx, chosen>>
          ELSE \/ /\ chosen' = [chosen EXCEPT ![w] = PyMax(Similarities(topic, rows))[1]]
                  /\ pc' = [pc EXCEPT ![w] = "insert_assignment"]
                  /\ UNCHANGED <<idx, response, failedAt>>
               \/ /\ pc' = [pc EXCEPT ![w] = "done"]
                  /\ response' = [response EXCEPT ![w] = 500]
                  /\ failedAt' = [failedAt EXCEPT ![w] = "similarity"]
                  /\ UNCHANGED <<idx, chosen>>
    /\ UNCHANGED <<tables, corpus, categories, ghosts>>

\* lines 220-224: one INSERT INTO PROJECT_BY_CATEGORY
InsertAssignment(w) ==
    /\ UNCHANGED <<extraction, translation>>
    /\ pc[w] = "insert_assignment"
    /\ PROJECT_BY_CATEGORY' = Add(PROJECT_BY_CATEGORY,
                                  [PROJECT_ID |-> corpus[idx[w]].RULE_ID.text,
                                   CATEGORY_ID |-> chosen[w]])
    /\ idx' = [idx EXCEPT ![w] = idx[w] + 1]
    /\ pc' = [pc EXCEPT ![w] = "advisory"]
    /\ UNCHANGED <<CATEGORIES, corpus, categories, chosen, response, failedAt, ghosts>>

\* lines 226-227
Finish(w) ==
    /\ UNCHANGED <<extraction, translation>>
    /\ pc[w] = "advisory"
    /\ idx[w] > Len(corpus)
    /\ pc' = [pc EXCEPT ![w] = "done"]
    /\ response' = [response EXCEPT ![w] = 200]
    /\ UNCHANGED <<tables, corpus, categories, idx, chosen, failedAt, ghosts>>

\* Any statement sent to the database may raise; the handler has no
\* try/except, so the request ends with status 500 where it stands.  At
\* "insert_category" the statement is the next INSERT or, after the last
\* one, the read of the corpus; at "advisory" it is the read of CATEGORIES.
Statements == {"truncate_categories", "truncate_assignments", "insert_category",
               "advisory", "insert_assignment"}

StatementFails(w) ==
    /\ UNCHANGED <<extraction, translation>>
    /\ pc[w] \in Statements
    /\ pc[w] = "advisory" => idx[w] <= Len(corpus) /\ Eligible(corpus[idx[w]].RULE_ID)
    /\ pc' = [pc EXCEPT ![w] = "done"]
    /\ response' = [response EXCEPT ![w] = 500]
    /\ failedAt' = [failedAt EXCEPT ![w] = pc[w]]
    /\ UNCHANGED <<tables, corpus, categories, idx, chosen, ghosts>>

\* lines 229-239: get_all_project_categories, served while a run is under way
GetAllProjectCategories ==
    /\ UNCHANGED <<extraction, translation>>
    /\ \E w \in Workers : pc[w] \in Statements
    /\ seen' = [read |-> TRUE, rows |-> JoinView]
    /\ UNCHANGED <<tables, corpus, pc, locals, startPBC, startView, repeat, served>>

Update(w) ==
    \/ \E body \in RequestBodies : Receive(w, body)
    \/ TruncateCategories(w)
    \/ TruncateAssignments(w)
    \/ InsertCategory(w)
    \/ ReadAdvisories(w)
    \/ SkipAdvisory(w)
    \/ ScoreAdvisory(w)
    \/ InsertAssignment(w)
    \/ Finish(w)
    \/ StatementFails(w)

\* Requests served one at a time (one worker), with a concurrent reader.
NextSeq == Update("w1") \/ GetAllProjectCategories

SpecSeq == Init /\ [][NextSeq]_vars

\* Requests served by the threads of Workers.
Next == \E w \in Workers : Update(w)

Spec == Init /\ [][Next]_vars

\* ---------------------------------------------- compare_text_to_existing
Respond(status, error) ==
    /\ xresponse' = [status |-> status, error |-> error]
    /\ xpc' = "done"

\* lines 272-279
CompareReceive(text, schema) ==
    /\ xpc \in {"idle", "done"}
    /\ query_text' = text
    /\ schema_name' = schema
    /\ content' = NoContent
    /\ nsman_id' = None
    /\ location_name' = None
    /\ slot_date' = None
    /\ queries' = <<>>
    /\ IF text = ""
       THEN Respond(400, RequiredError)
       ELSE /\ xpc' = "invoke"
            /\ xresponse' = [status |-> 0, error |-> NoError]
    /\ UNCHANGED <<classification, translation>>

\* lines 304-305: the completion call returns some content, or raises into
\* the outer except (lines 368-369)
InvokeLM(text) ==
    /\ xpc = "invoke"
    /\ content' = text
    /\ xpc' = "parse"
    /\ UNCHANGED <<query_text, schema_name, nsman_id, location_name, slot_date,
                   xresponse, queries, classification,
                   translation>>

InvokeLMRaises ==
    /\ xpc = "invoke"
    /\ Respond(400, RaisedError)
    /\ UNCHANGED <<query_text, schema_name, content, nsman_id, location_name,
                   slot_date, queries, classification,
                   translation>>

\* lines 307-316
ParseExtraction ==
    /\ xpc = "parse"
    /\ IF JsonLoadsRaises(content) \/ GetRaises(content)
       THEN /\ Respond(400, ParseError)
            /\ UNCHANGED <<nsman_id, location_name, slot_date>>
       ELSE /\ nsman_id' = Get(content, "nsman_id")
            /\ location_name' = Get(content, "location_name")
            /\ slot_date' = Get(content, "slot_date")
            /\ IF NsmanIdMissing(nsman_id')
               THEN Respond(400, NotFoundError)
               ELSE xpc' = "lookup" /\ UNCHANGED xresponse
    /\ UNCHANGED <<query_text, schema_name, content, queries, classification,
                   translation>>

\* lines 318-366: one lookup query, chosen by location_name; the query may
\* raise into the outer except
Lookup ==
    /\ xpc = "lookup"
    /\ queries' = Append(queries,
                         IF Truthy(location_name)
                         THEN SlotQuery(schema_name, location_name, slot_date)
                         ELSE FallbackQuery(schema_name, nsman_id))
    /\ \/ Respond(200, NoError)
       \/ Respond(400, RaisedError)
    /\ UNCHANGED <<query_text, schema_name, content, nsman_id, location_name,
                   slot_date, classification,
                   translation>>

NextExtract ==
    \/ \E text \in QueryTexts, schema \in SchemaNames : CompareReceive(text, schema)
    \/ \E text \in Contents : InvokeLM(text)
    \/ InvokeLMRaises
    \/ ParseExtraction
    \/ Lookup

InitExtract == Init /\ corpus = <<>>

SpecExtract == InitExtract /\ [][NextExtract]_vars

\* --------------------------------------------- translate_nl_to_new, config
tlocals == <<config, extractedTopic, query, sparql_query, final_query, executed, used>>

\* lines 221-222: the except clause names final_query, assigned or not
Except ==
    /\ tpc' = "done"
    /\ tresponse' = IF ~final_query.bound THEN UnhandledResponse ELSE ErrorResponse

\* lines 148-151
TranslateReceive(body) ==
    /\ tpc \in {"idle", "done"}
    /\ config' = NoConfig
    /\ extractedTopic' = Unbound
    /\ query' = Unbound
    /\ sparql_query' = Unbound
    /\ final_query' = UnboundQuery
    /\ executed' = <<>>
    /\ used' = NothingUsed
    /\ IF ~body.json
       THEN /\ tpc' = "done"
            /\ tresponse' = UnhandledResponse
       ELSE IF ~Truthy(body.nl_query)
       THEN /\ tpc' = "done"
            /\ tresponse' = RequiredResponse
       ELSE /\ tpc' = "read"
            /\ tresponse' = NoResponse
    /\ UNCHANGED <<ONTOLOGY_CONFIG, classification, extraction>>

\* lines 153-160: one SELECT, one fetchone, one unpacking
ReadConfig ==
    /\ tpc = "read"
    /\ config' = ONTOLOGY_CONFIG
    /\ tpc' = "ontology"
    /\ UNCHANGED <<ONTOLOGY_CONFIG, extractedTopic, query, sparql_query, final_query,
                   tresponse, executed, used, classification, extraction>>

\* lines 166-179: the three SPARQL_EXECUTE calls; their results only reach
\* the prompt of the generation step
FetchOntology ==
    /\ tpc = "ontology"
    /\ IF \E k \in {"ontology_query", "property_query", "classes_query"} :
             config[k] = None
       THEN Except
       ELSE /\ tpc' = "topic"
            /\ UNCHANGED tresponse
    /\ UNCHANGED <<ONTOLOGY_CONFIG, tlocals, classification, extraction>>

\* lines 181-188
ExtractTopic(answer) ==
    /\ tpc = "topic"
    /\ used' = [used EXCEPT !["template_similarity"] = config["template_similarity"]]
    /\ IF \/ config["template_similarity"] = None
          \/ JsonLoadsRaises(answer)
          \/ ItemRaises(answer, "topic")
          \/ ItemRaises(answer, "query")
       THEN /\ Except
            /\ UNCHANGED <<extractedTopic, query>>
       ELSE /\ extractedTopic' = answer.fields["topic"]
            /\ query' = answer.fields["query"]
            /\ tpc' = "sparql"
            /\ UNCHANGED tresponse
    /\ UNCHANGED <<ONTOLOGY_CONFIG, config, sparql_query, final_query, executed,
                   classification, extraction>>

\* lines 190-207
GenerateSparql(fragment) ==
    /\ tpc = "sparql"
    /\ used' = [used EXCEPT !["template"] = config["template"]]
    /\ IF config["template"] = None
       THEN /\ Except
            /\ UNCHANGED sparql_query
       ELSE /\ sparql_query' = fragment
            /\ tpc' = "compile"
            /\ UNCHANGED tresponse
    /\ UNCHANGED <<ONTOLOGY_CONFIG, config, extractedTopic, query, final_query, executed,
                   classification, extraction>>

\* lines 209-212
Compile ==
    /\ tpc = "compile"
    /\ LET row == CompileSource(config, ONTOLOGY_CONFIG)
           outer == OuterTemplate(row, extractedTopic)
       IN /\ used' = [used EXCEPT !["outer"] = outer]
          /\ IF FormatRaises(outer, Keywords(extractedTopic, sparql_query))
             THEN /\ Except
                  /\ UNCHANGED final_query
             ELSE /\ final_query' = Compiled(row, extractedTopic, sparql_query)
                  /\ tpc' = "execute"
                  /\ UNCHANGED tresponse
    /\ UNCHANGED <<ONTOLOGY_CONFIG, config, extractedTopic, query, sparql_query, executed,
                   classification, extraction>>

\* lines 214-219, and 221-222 when the statement raises
Execute ==
    /\ tpc = "execute"
    /\ executed' = Append(executed, final_query)
    /\ \/ /\ tpc' = "done"
          /\ tresponse' = ResultResponse
       \/ Except
    /\ UNCHANGED <<ONTOLOGY_CONFIG, config, extractedTopic, query, sparql_query,
                   final_query, used, classification, extraction>>

\* A call to the database or to the LM raises before the text is compiled.
CallRaises ==
    /\ tpc \in {"read", "ontology", "topic", "sparql"}
    /\ Except
    /\ UNCHANGED <<ONTOLOGY_CONFIG, tlocals, classification, extraction>>

\* lines 227-247: POST /config, one UPDATE of every column
ConfigUpdate(body) ==
    /\ ONTOLOGY_CONFIG' = ConfigRow(body)
    /\ UNCHANGED <<tpc, tresponse, tlocals, classification, extraction>>

NextTranslate ==
    \/ \E body \in TranslateBodies : TranslateReceive(body)
    \/ ReadConfig
    \/ FetchOntology
    \/ \E answer \in TopicResponses : ExtractTopic(answer)
    \/ \E fragment \in SparqlQueries : GenerateSparql(fragment)
    \/ Compile
    \/ Execute
    \/ CallRaises
    \/ \E body \in ConfigBodies : ConfigUpdate(body)

InitTranslate == Init /\ corpus = <<>>

SpecTranslate == InitTranslate /\ [][NextTranslate]_vars

\* ================================================================ claims
Running(w) == pc[w] \in Statements
Succeeded(w) == pc[w] = "done" /\ response[w] = 200
Quiescent == \A w \in Workers : ~Running(w)

\* Rows of PROJECT_BY_CATEGORY that carry the item id `id`.
AssignmentsOf(id) ==
    LET rows == {r \in BagToSet(PROJECT_BY_CATEGORY) : r.PROJECT_ID = id}
        n[S \in SUBSET rows] ==
            IF S = {} THEN 0
            ELSE LET r == CHOOSE x \in S : TRUE
                 IN CopiesIn(r, PROJECT_BY_CATEGORY) + n[S \ {r}]
    IN n[rows]

HasText(advisory) == advisory.TOPIC \notin {None, ""}

\* The lowest index among the rows of CATEGORIES closest to `topic`.
LowestBest(topic) ==
    LET rows == BagToSet(CATEGORIES)
        best == {r \in rows : \A q \in rows :
                    Similarity(topic, q.descr) <= Similarity(topic, r.descr)}
    IN CHOOSE i \in {r.index : r \in best} : \A r \in best : i <= r.index

\* C1: whatever get_all_project_categories returns while a run is under way
\* is the complete assignment set of before the run or the complete set the
\* run ends with, never an empty or partly filled one.
C1_ReaderSeesCompleteSet ==
    \A w \in Workers :
        (Succeeded(w) /\ seen.read) =>
            (seen.rows = startView[w] \/ seen.rows = JoinView)

\* C2: a run that fails after it started leaves PROJECT_BY_CATEGORY as it
\* was when the request arrived.
C2_FailedRunLeavesAssignments ==
    \A w \in Workers :
        (pc[w] = "done" /\ response[w] = 500) => PROJECT_BY_CATEGORY = startPBC[w]

\* C3: at most one run is between its first and its last statement at any
\* time, so the writes of two runs are never mixed.
C3_SingleWriter == Cardinality({w \in Workers : Running(w)}) <= 1

\* C4: after a successful run every item with a text has exactly one
\* assignment and every item without a text has none.
C4_ExactlyOneAssignment ==
    \A w \in Workers :
        Succeeded(w) =>
            \A i \in DOMAIN corpus :
                /\ HasText(corpus[i]) => AssignmentsOf(corpus[i].RULE_ID.text) = 1
                /\ ~HasText(corpus[i]) => AssignmentsOf(corpus[i].RULE_ID.text) = 0

\* C5: when no run is under way, the CATEGORY_ID of every assignment is the
\* "index" of a row of CATEGORIES.
C5_CategoryIdKnown ==
    Quiescent =>
        \A r \in BagToSet(PROJECT_BY_CATEGORY) :
            \E c \in BagToSet(CATEGORIES) : c.index = r.CATEGORY_ID

\* C6: the category about to be assigned is closest to the item's topic and,
\* among the closest, the one with the lowest index, in whatever order the
\* categories were read.
C6_LowestIdOnTie ==
    \A w \in Workers :
        (pc[w] = "insert_assignment" /\ CATEGORIES # EmptyBag) =>
            chosen[w] = LowestBest(corpus[idx[w]].TOPIC)

\* C7: no run ends because of one item: a run in which no statement other
\* than the scoring of an item failed ends successfully.
C7_ItemFailureSkipped ==
    \A w \in Workers :
        (pc[w] = "done" /\ response[w] # 400 /\ failedAt[w] \in {"", "topic", "similarity"})
            => response[w] = 200

\* C8 as stated: a run with an empty category set succeeds and leaves an
\* empty assignment set.
C8_EmptyBodySucceeds ==
    \A w \in Workers :
        (pc[w] = "done" /\ categories[w] = <<>>) =>
            (response[w] = 200 /\ PROJECT_BY_CATEGORY = EmptyBag)

\* C8 as amended: a request with an empty category set is answered 400 in
\* the step that receives it, and that step changes neither CATEGORIES nor
\* PROJECT_BY_CATEGORY.
C8_EmptyBodyRejected ==
    [][served' # served =>
          /\ UNCHANGED tables
          /\ \A w \in Workers :
                (categories'[w] = <<>> /\ pc'[w] # "idle") =>
                    (pc'[w] = "done" /\ response'[w] = 400)]_vars

C8_Witness ==
    \E w \in Workers :
        /\ pc[w] = "done" /\ categories[w] = <<>> /\ response[w] = 400
        /\ PROJECT_BY_CATEGORY # EmptyBag

\* C9: a successful run that repeats the body of the successful run just
\* before it ends with the assignment set that run ended with.
C9_RepeatedRunSameAssignments ==
    \A w \in Workers :
        (Succeeded(w) /\ repeat[w]) => PROJECT_BY_CATEGORY = startPBC[w]

\* C10: once the LM has answered, the request ends in an extraction error
\* without any lookup query when the content is not a JSON object or its
\* nsman_id is absent, null or empty; with an nsman_id, a location_name or
\* slot_date that is absent or null is extracted as null, a lookup query is
\* run and no extraction error is returned.
C10_Undecodable == content.kind # "object"
C10_IdAbsent ==
    /\ content.kind = "object"
    /\ ("nsman_id" \notin DOMAIN content.fields \/ content.fields["nsman_id"] \in {None, ""})
C10_NullOrAbsent(key) ==
    key \notin DOMAIN content.fields \/ content.fields[key] = None
C10_ExtractionContract ==
    (content # NoContent) =>
        /\ (C10_Undecodable \/ C10_IdAbsent) =>
              /\ queries = <<>>
              /\ xpc \in {"parse", "done"}
              /\ xpc = "done" => xresponse = [status |-> 400,
                                             error |-> IF C10_Undecodable THEN ParseError
                                                       ELSE NotFoundError]
        /\ (~C10_Undecodable /\ ~C10_IdAbsent /\ xpc \in {"lookup", "done"}) =>
              /\ nsman_id = content.fields["nsman_id"]
              /\ C10_NullOrAbsent("location_name") => location_name = None
              /\ C10_NullOrAbsent("slot_date") => slot_date = None
              /\ xpc = "done" =>
                    /\ Len(queries) = 1
                    /\ xresponse.error \notin {ParseError, NotFoundError}

C10_Witness ==
    /\ xpc = "done"
    /\ content.kind = "object"
    /\ DOMAIN content.fields = {"nsman_id", "location_name"}
    /\ content.fields["nsman_id"] = ""
    /\ xresponse = [status |-> 400, error |-> NotFoundError]
    /\ queries = <<>>

\* ---------------------------------------------------- reading query text
\* The values formatted into a text, in order.
ValuePieces(text) == SelectSeq(text, LAMBDA p : p.from = "value")
HasPiece(text, piece) == \E i \in DOMAIN text : text[i] = Tmpl(piece)

\* How SQL reads each piece of a text: "code", the quote that opens a string
\* literal, a piece inside it ("lit"), a doubled quote inside it ("esc"),
\* or the quote that closes it.
RECURSIVE LexFrom(_, _, _)
LexFrom(text, i, inLiteral) ==
    IF i > Len(text) THEN <<>>
    ELSE IF text[i].t # Quote
    THEN <<IF inLiteral THEN "lit" ELSE "code">> \o LexFrom(text, i + 1, inLiteral)
    ELSE IF ~inLiteral
    THEN <<"open">> \o LexFrom(text, i + 1, TRUE)
    ELSE IF i < Len(text) /\ text[i + 1].t = Quote
    THEN <<"esc", "esc">> \o LexFrom(text, i + 2, TRUE)
    ELSE <<"close">> \o LexFrom(text, i + 1, FALSE)
Lex(text) == LexFrom(text, 1, FALSE)

\* C11: the one query a valid extraction leads to is the availability lookup
\* exactly when location_name is present (neither null nor empty); it then
\* carries location_name and, only when slot_date is present, the date filter
\* with slot_date; otherwise it is the fallback lookup and carries only the
\* nsman_id.  Either text ends in LIMIT 3.
C11_Present(key) ==
    key \in DOMAIN content.fields /\ content.fields[key] \notin {None, ""}
C11_Of(key) == Interpolate(content.fields[key])
C11_BranchSelection ==
    \A i \in DOMAIN queries :
        LET text == queries[i].text
            bound == SubSeq(ValuePieces(text), Len(Interpolate(schema_name)) + 1,
                            Len(ValuePieces(text)))
        IN /\ text[Len(text)] = Tmpl(Limit3)
           /\ HasPiece(text, SlotWhere) <=> C11_Present("location_name")
           /\ HasPiece(text, FallbackWhere) <=> ~C11_Present("location_name")
           /\ HasPiece(text, SlotDateFilter) <=>
                 (C11_Present("location_name") /\ C11_Present("slot_date"))
           /\ bound = IF ~C11_Present("location_name") THEN C11_Of("nsman_id")
                      ELSE IF C11_Present("slot_date")
                      THEN C11_Of("location_name") \o C11_Of("slot_date")
                      ELSE C11_Of("location_name")

C11_Witness ==
    /\ xpc = "done" /\ xresponse.status = 200 /\ Len(queries) = 1
    /\ C11_Present("location_name") /\ ~C11_Present("slot_date")
    /\ HasPiece(queries[1].text, SlotWhere)
    /\ ~HasPiece(queries[1].text, SlotDateFilter)

\* C12: once final_query is assigned, it was formatted from query_template,
\* with the generated fragment and the topic, exactly when the extracted
\* topic is not the string "None", and from query_template_no_topic, with
\* the fragment alone, otherwise.  The fragment is generated, and its prompt
\* template used, only after the topic is extracted; the outer template is
\* filled only after the fragment is generated.
C12_TopicTemplateChoice ==
    /\ final_query.bound =>
          LET both == [k \in {"generated_sparql_query", "topic"} |->
                          IF k = "topic" THEN extractedTopic ELSE sparql_query]
              one == [k \in {"generated_sparql_query"} |-> sparql_query]
          IN IF extractedTopic # "None"
             THEN /\ used["outer"] = config["query_template"]
                  /\ final_query.text = Format(config["query_template"], both)
             ELSE /\ used["outer"] = config["query_template_no_topic"]
                  /\ final_query.text = Format(config["query_template_no_topic"], one)
    /\ (used["template"] # Unbound \/ sparql_query # Unbound) => extractedTopic # Unbound
    /\ (used["outer"] # UnboundTemplate \/ final_query.bound) => sparql_query # Unbound

C12_Witness ==
    /\ tresponse = ResultResponse
    /\ extractedTopic = None
    /\ final_query.text = Format(config["query_template"],
                                 Keywords(extractedTopic, sparql_query))

\* C13: no text handed to the executor holds a replacement field, and when
\* the outer template is NULL, empty or names a field that is given no
\* keyword, or a metadata column is NULL, the request hands no text to the
\* executor and does not end in a 200.
C13_BadTemplate(template) ==
    \/ template \in {NullTemplate, EmptyTemplate}
    \/ \E i \in DOMAIN template :
          /\ template[i].from = "field"
          /\ template[i].t \notin DOMAIN Keywords(extractedTopic, sparql_query)
C13_MetadataMissing ==
    \E k \in ConfigFields \ (TemplateFields \cup {"graph", "graph_inferred"}) :
        config[k] = None
C13_NoUnresolvedPlaceholder ==
    /\ \A i \in DOMAIN executed :
          \A j \in DOMAIN executed[i].text : executed[i].text[j].from # "field"
    /\ (C13_BadTemplate(used["outer"]) \/ C13_MetadataMissing) =>
          /\ executed = <<>>
          /\ tpc = "done" => tresponse.status # 200

\* C14: a translation request never ends in anything but a structured
\* response: the 200 with result and final_query, or a 400 with an error.
C14_StructuredError ==
    tpc = "done" => tresponse \in {ResultResponse, RequiredResponse, ErrorResponse}

\* C15: a step that changes ONTOLOGY_CONFIG leaves the translation request
\* where it is (it is not a step of the request); the request's row is one
\* row the table has held, and every config value the request uses, the two
\* prompt templates and the outer template, is a column of that one row,
\* whatever POST /config has written since.
C15_Snapshot ==
    /\ config \in ConfigRows \cup {NoConfig}
    /\ \A k \in {"template_similarity", "template"} : used[k] \in {Unbound, config[k]}
    /\ used["outer"] \in
          {UnboundTemplate, config["query_template"], config["query_template_no_topic"]}
C15_ConfigIsolation ==
    /\ []C15_Snapshot
    /\ [][ONTOLOGY_CONFIG' # ONTOLOGY_CONFIG =>
             UNCHANGED <<tpc, tresponse, tlocals>>]_vars

C15_Witness ==
    /\ tresponse = ResultResponse
    /\ ONTOLOGY_CONFIG = ConfigRow(ConfigB)
    /\ config = ConfigRow(ConfigA)
    /\ used["outer"] = config["query_template"]

\* C16: in every lookup text, a quote that comes from a formatted value is
\* read as a doubled quote inside a string literal, and the quotes of the
\* f-string itself are read as it wrote them: the first opens a literal, the
\* next closes it, and so on.  (This is the claim for the values written
\* between quotes; schema_name, written as an identifier, is left aside.)
C16_OwnQuotes(text, j) ==
    Len(SelectSeq(SubSeq(text, 1, j), LAMBDA p : p = Tmpl(Quote)))
C16_ValuesEscaped ==
    \A i \in DOMAIN queries :
        LET text == queries[i].text IN
        \A j \in DOMAIN text :
            /\ text[j] = Val(Quote) => Lex(text)[j] = "esc"
            /\ text[j] = Tmpl(Quote) =>
                  Lex(text)[j] = IF C16_OwnQuotes(text, j) % 2 = 1 THEN "open" ELSE "close"

====
